---------------------------- MODULE Spec2Model ----------------------------
(***************************************************************************)
(* A model of the multi-modal research agent:                              *)
(*   - the reasoning / tool-dispatch loop of src/src/agent.py              *)
(*     (run_research, _run_tool),                                          *)
(*   - the chunker and the knowledge store of src/src/tools/rag.py         *)
(*     (_chunk_text, index_document, index_directory,                      *)
(*     retrieve_from_knowledge_base),                                      *)
(*   - the content builder of src/src/multimodal.py                        *)
(*     (build_message_content).                                            *)
(*                                                                         *)
(* A Python str is a sequence of symbols.  The symbol " " is a whitespace  *)
(* character; every other symbol is a non-whitespace character (in the     *)
(* agent part a word such as "result" stands for a run of them).  The      *)
(* empty str is <<>>, and it is the only falsy str.                        *)
(***************************************************************************)
EXTENDS Integers, Sequences, FiniteSets, TLC

VARIABLES
    \* ---- run_research (src/src/agent.py)
    runInput,      \* the arguments of run_research
    messages,      \* the conversation: list of message dicts
    pc,            \* position in run_research
    N,             \* MAX_AGENT_STEPS as configured for this run
    step,          \* completed iterations of "for _ in range(MAX_AGENT_STEPS)"
    msg,           \* choice.message of the current iteration
    tci,           \* index of the next entry of msg.tool_calls (1-based)
    retval,        \* the value run_research returned
    modelCalls,    \* number of client.chat.completions.create calls
    lastRequest,   \* the last request sent to the LLM endpoint (messages by count)
    lastDispatch,  \* the last call of _run_tool and what it did
    \* ---- _chunk_text (src/src/tools/rag.py)
    text,          \* the argument of _chunk_text
    cpc,           \* position in _chunk_text
    start,         \* start of the next window (0-based)
    chunks,        \* the chunks appended so far
    \* ---- the knowledge store (src/src/tools/rag.py)
    HAS_RAG_DEPS,  \* chromadb and sentence_transformers were imported
    fs,            \* the files: path -> file
    store,         \* the entries of the Chroma collection "research_kb"
    status,        \* what the last store operation returned
    indexCall,     \* the last call of index_document and the file it read
    dirCall,       \* the last call of index_directory and what it did
    queryCall      \* the last call of retrieve_from_knowledge_base

agentVars == <<runInput, messages, pc, N, step, msg, tci, retval, modelCalls,
               lastRequest, lastDispatch>>

chunkVars == <<text, cpc, start, chunks>>

storeVars == <<HAS_RAG_DEPS, fs, store, status, indexCall, dirCall, queryCall>>

vars == <<agentVars, chunkVars, storeVars>>

-----------------------------------------------------------------------------
(* str helpers *)

IsSpace(c) == c \in {" ", "\n", "\t"}

SetMin(S) == CHOOSE m \in S : \A k \in S : m <= k

SetMax(S) == 0 - SetMin({0 - k : k \in S})

\* str.strip(): drop leading and trailing whitespace.
Strip(s) ==
    LET keep == {i \in 1..Len(s) : ~IsSpace(s[i])}
    IN  IF keep = {} THEN <<>> ELSE SubSeq(s, SetMin(keep), SetMax(keep))

\* "x or y" on two str values.
OrStr(x, y) == IF Len(x) > 0 THEN x ELSE y

\* An optional str (a str or None).
None == [tag |-> "None"]

Some(s) == [tag |-> "str", s |-> s]

\* "v or default" where v is an optional str.
OrDefault(v, default) ==
    IF v.tag = "None" THEN default ELSE OrStr(v.s, default)

-----------------------------------------------------------------------------
(* Tool registry and dispatch: src/src/agent.py *)

\* TOOL_IMPLEMENTATIONS: the registered names.
TOOL_IMPLEMENTATIONS ==
    {"load_document", "summarize_document", "web_search",
     "search_academic_papers", "retrieve_from_knowledge_base"}

\* OPENAI_TOOLS: the schema list, by function name, in order.
OPENAI_TOOLS ==
    <<"load_document", "summarize_document", "web_search",
      "search_academic_papers", "retrieve_from_knowledge_base">>

\* Parameters of each implementation without a default.
RequiredParams(name) ==
    CASE name = "load_document" -> {"path"}
      [] name = "summarize_document" -> {"text"}
      [] OTHER -> {"query"}

\* All parameters of each implementation.
AllParams(name) ==
    CASE name = "load_document" -> {"path"}
      [] name = "summarize_document" -> {"text", "max_length"}
      [] name = "web_search" -> {"query", "max_results"}
      [] name = "search_academic_papers" -> {"query", "max_results", "source"}
      [] OTHER -> {"query", "n_results"}

\* A parsed JSON value, as far as dispatch looks at it: a dict with its keys,
\* or a value of another type.
JsonDict(keys) == [kind |-> "dict", keys |-> keys]

JsonOther(kind) == [kind |-> kind, keys |-> {}]

EmptyArgs == JsonDict({})

\* json.loads on the argument strings the scripted model emits:
\* [ok |-> FALSE] stands for json.JSONDecodeError.
JsonLoads(s) ==
    CASE s = "{\"query\": \"x\"}" -> [ok |-> TRUE, value |-> JsonDict({"query"})]
      [] s = "{\"text\": \"x\"}" -> [ok |-> TRUE, value |-> JsonDict({"text"})]
      [] s = "{}" -> [ok |-> TRUE, value |-> JsonDict({})]
      [] s = "[1]" -> [ok |-> TRUE, value |-> JsonOther("list")]
      [] s = "null" -> [ok |-> TRUE, value |-> JsonOther("NoneType")]
      [] OTHER -> [ok |-> FALSE, value |-> JsonOther("error")]

\* try: args = json.loads(tc.function.arguments)
\* except json.JSONDecodeError: args = {}
ParseArgs(s) == IF JsonLoads(s).ok THEN JsonLoads(s).value ELSE EmptyArgs

\* What an implementation does once it runs: the environment's choice.
Returns(s) == [kind |-> "return", value |-> s]

ReturnsNone == [kind |-> "none", value |-> <<>>]

Raises(e) == [kind |-> "raise", value |-> e]

ToolOutcomes ==
    {Returns(<<"result">>), Returns(<<" ">>), ReturnsNone,
     Raises(<<"ConnectionError">>)}

\* impl(**arguments): unpacking a non-mapping, a missing required parameter
\* or an unexpected keyword raises TypeError before the body runs.
BindsArgs(name, args) ==
    /\ args.kind = "dict"
    /\ RequiredParams(name) \subseteq args.keys
    /\ args.keys \subseteq AllParams(name)

Invoke(name, args, outcome) ==
    IF BindsArgs(name, args) THEN outcome ELSE Raises(<<"TypeError">>)

_run_tool_strNone(name, args, outcome) ==
    IF name \notin TOOL_IMPLEMENTATIONS
    THEN <<"Unknown", " ", "tool:", " ", name>>
    ELSE LET r == Invoke(name, args, outcome)
         IN  CASE r.kind = "raise" -> <<"Tool", " ", "error:", " ">> \o r.value
               [] r.kind = "none" -> <<"None">>
               [] OTHER -> r.value

\* _run_tool(name, arguments) -> str
_run_tool(name, args, outcome) ==
    IF name \notin TOOL_IMPLEMENTATIONS
    THEN <<"Unknown", " ", "tool:", " ", name>>
    ELSE LET r == Invoke(name, args, outcome)
         IN  CASE r.kind = "raise" -> <<"Tool", " ", "error:", " ">> \o r.value
               [] r.kind = "none" -> <<>>
               [] OTHER -> r.value

-----------------------------------------------------------------------------
(* Content builder: src/src/multimodal.py *)

\* The files the runs of this model are given: a readable text file, a
\* readable image and a readable PDF; an image and a text file that cannot
\* be opened, and a file PdfReader rejects; a path that does not exist.
InputPaths ==
    {"notes.txt", "pic.png", "paper.pdf", "locked.png", "locked.txt",
     "broken.pdf", "missing.txt"}

FileExists(path) == path # "missing.txt"

\* Opening or parsing the file succeeds.
FileReadable(path) == path \in {"notes.txt", "pic.png", "paper.pdf"}

FileText(path) == <<"notes">>

\* path.suffix.lower()
PathSuffix(path) ==
    CASE path \in {"notes.txt", "locked.txt", "missing.txt"} -> ".txt"
      [] path \in {"pic.png", "locked.png"} -> ".png"
      [] OTHER -> ".pdf"

\* get_image_media_type(path)
get_image_media_type(path) ==
    CASE PathSuffix(path) = ".png" -> "image/png"
      [] PathSuffix(path) = ".gif" -> "image/gif"
      [] PathSuffix(path) = ".webp" -> "image/webp"
      [] OTHER -> "image/jpeg"

\* The file is read outside a try block and the read raises: an image
\* (load_image_as_base64, line 86) or a PDF (load_pdf_text, line 93).
FileRaises(path) ==
    /\ FileExists(path)
    /\ ~FileReadable(path)
    /\ PathSuffix(path) \in {".png", ".jpg", ".jpeg", ".gif", ".webp", ".pdf"}

\* One block per file path (lines 79-103), for a path that does not raise.
FileBlock(path) ==
    IF ~FileExists(path)
    THEN [type |-> "text", text |-> <<"[File", " ", "not", " ", "found:", " ", path, "]">>]
    ELSE IF PathSuffix(path) \in {".png", ".jpg", ".jpeg", ".gif", ".webp"}
    THEN [type |-> "image_url",
          image_url |-> [url |-> <<"data:", get_image_media_type(path),
                                   ";base64,", path>>]]
    ELSE IF PathSuffix(path) = ".pdf"
    THEN [type |-> "text", text |-> <<"[PDF:", " ", path, "]", "\n", "\n">> \o FileText(path)]
    ELSE IF FileReadable(path)
    THEN [type |-> "text", text |-> <<"[File:", " ", path, "]", "\n", "\n">> \o FileText(path)]
    ELSE [type |-> "text", text |-> <<"[Could", " ", "not", " ", "read", " ", path, "]">>]

\* build_message_content(user_text, file_paths): the returned list, or the
\* exception of the first file whose read raises (the blocks of the files
\* before it are lost with the local list).
build_message_content(user_text, file_paths) ==
    LET content == IF Strip(user_text) # <<>>
                   THEN <<[type |-> "text", text |-> user_text]>>
                   ELSE <<>>
    IN  IF file_paths = <<>>
        THEN [raised |-> FALSE,
              content |-> IF content # <<>>
                          THEN content
                          ELSE <<[type |-> "text",
                                  text |-> <<"No", " ", "input", " ", "provided.">>]>>]
        ELSE IF \E i \in 1..Len(file_paths) : FileRaises(file_paths[i])
        THEN [raised |-> TRUE, content |-> <<>>]
        ELSE [raised |-> FALSE,
              content |-> content \o [i \in 1..Len(file_paths) |->
                                         FileBlock(file_paths[i])]]

-----------------------------------------------------------------------------
(* The agent loop: run_research, src/src/agent.py *)

\* Tool calls the scripted model puts in one reply: at most MaxCalls.
MaxCalls == 2

\* The step bounds (MAX_AGENT_STEPS) the runs are configured with.
StepBounds == 0..2

\* tc.function of the requests the scripted model emits: a well-formed call,
\* an argument string that is not JSON, one that is JSON but no mapping,
\* and a name that is not registered.
ScriptedFunctions ==
    {[name |-> "web_search", arguments |-> "{\"query\": \"x\"}"],
     [name |-> "summarize_document", arguments |-> "{bad"],
     [name |-> "web_search", arguments |-> "[1]"],
     [name |-> "translate", arguments |-> "{\"query\": \"x\"}"]}

\* The tool_calls of the reply to model call number t (ids unique in the run).
ScriptedToolCalls(t) ==
    UNION {{[k \in 1..n |-> [id |-> <<"call", t, k>>, function |-> fns[k]]] :
                fns \in [1..n -> ScriptedFunctions]} : n \in 1..MaxCalls}

\* msg.content of a reply without tool calls: None or text with surrounding
\* whitespace.
ReplyContents == {None, Some(<<" ", "answer", " ">>)}

\* msg.content of a reply with tool calls.
ToolReplyContents == {Some(<<"Let", " ", "me", " ", "check.">>)}

\* choice.message of model call number t.  A tool_calls of None and of []
\* are both <<>>: the code only tests its truth value.
ScriptedReplies(t) ==
    {[content |-> c, tool_calls |-> <<>>] : c \in ReplyContents}
    \cup {[content |-> c, tool_calls |-> tcs] :
            c \in ToolReplyContents, tcs \in ScriptedToolCalls(t)}

\* The input of the runs: (system_prompt, user_text, file_paths).
RunInputs ==
    {[system_prompt |-> None, user_text |-> <<"What", " ", "is", " ", "2+2?">>,
      file_paths |-> <<>>]}

default_system == <<"You", " ", "are", " ", "a", " ", "multi-modal", " ",
                    "research", " ", "assistant.">>

MaxStepsReached == <<"Max", " ", "steps", " ", "reached.">>

NoInput == [system_prompt |-> None, user_text |-> <<>>, file_paths |-> <<>>]

NoMessage == [content |-> None, tool_calls |-> <<>>]

NoRequest == [n_messages |-> 0, tools |-> <<>>, tool_choice |-> ""]

NoDispatch == [at |-> 0, id |-> <<>>, name |-> "", arguments |-> "",
               args |-> EmptyArgs, found |-> FALSE, outcome |-> ReturnsNone]

AppendMessage_KeepLast(msgs, m) ==
    IF Len(msgs) >= 4 THEN Append(SubSeq(msgs, 1, 1) \o Tail(Tail(msgs)), m)
    ELSE Append(msgs, m)

\* messages.append(m)
AppendMessage(msgs, m) == Append(msgs, m)

\* The assistant message appended for a reply (lines 161-165).
AssistantMessage(m) ==
    [role |-> "assistant", content |-> OrDefault(m.content, <<>>),
     tool_calls |-> m.tool_calls]

ToolMessage_FirstId(m, i, result) ==
    [role |-> "tool", tool_call_id |-> m.tool_calls[1].id, content |-> result]

\* The tool message appended for msg.tool_calls[i] (lines 178-182).
ToolMessage(m, i, result) ==
    [role |-> "tool", tool_call_id |-> m.tool_calls[i].id, content |-> result]

ReplyEndsRun_Never(m) == FALSE

\* if not getattr(msg, "tool_calls", None)
ReplyEndsRun(m) == m.tool_calls = <<>>

\* return (msg.content or "").strip()
FinalAnswer(m) == Strip(OrDefault(m.content, <<>>))

\* tools=OPENAI_TOOLS in the request of model call number t.
RequestTools(t) == OPENAI_TOOLS

\* The messages run_research starts the loop with (lines 145-150).
StartMessages(in) ==
    <<[role |-> "system",
       content |-> OrDefault(in.system_prompt, default_system)],
      [role |-> "user",
       content |-> build_message_content(in.user_text, in.file_paths).content]>>

InitAgent ==
    /\ runInput \in RunInputs
    /\ messages = StartMessages(runInput)
    /\ N \in StepBounds
    /\ pc = "loop"
    /\ step = 0
    /\ msg = NoMessage
    /\ tci = 0
    /\ retval = <<>>
    /\ modelCalls = 0
    /\ lastRequest = NoRequest
    /\ lastDispatch = NoDispatch

\* One pass of the loop head: the model call, the append of the reply and the
\* test for tool calls (lines 152-168).
ModelCall ==
    /\ pc = "loop"
    /\ step < N
    /\ \E reply \in ScriptedReplies(modelCalls + 1) :
          /\ lastRequest' = [n_messages |-> Len(messages),
                             tools |-> RequestTools(modelCalls + 1),
                             tool_choice |-> "auto"]
          /\ modelCalls' = modelCalls + 1
          /\ msg' = reply
          /\ messages' = AppendMessage(messages, AssistantMessage(reply))
          /\ IF ReplyEndsRun(reply)
             THEN /\ pc' = "done"
                  /\ retval' = FinalAnswer(reply)
                  /\ tci' = tci
             ELSE /\ pc' = "tools"
                  /\ retval' = retval
                  /\ tci' = 1
    /\ UNCHANGED <<runInput, N, step, lastDispatch>>
    /\ UNCHANGED <<chunkVars, storeVars>>

\* One pass of "for tc in msg.tool_calls" (lines 170-182).
ToolStep ==
    /\ pc = "tools"
    /\ tci <= Len(msg.tool_calls)
    /\ \E outcome \in ToolOutcomes :
          LET tc     == msg.tool_calls[tci]
              name   == tc.function.name
              args   == ParseArgs(tc.function.arguments)
              found  == name \in TOOL_IMPLEMENTATIONS
              result == _run_tool(name, args, outcome)
          IN  /\ messages' = AppendMessage(messages, ToolMessage(msg, tci, result))
              /\ lastDispatch' =
                    [at |-> Len(messages) + 1, id |-> tc.id, name |-> name,
                     arguments |-> tc.function.arguments, args |-> args,
                     found |-> found,
                     outcome |-> IF found THEN Invoke(name, args, outcome)
                                 ELSE ReturnsNone]
    /\ tci' = tci + 1
    /\ UNCHANGED <<runInput, pc, N, step, msg, retval, modelCalls,
                   lastRequest>>
    /\ UNCHANGED <<chunkVars, storeVars>>

\* The for loop over msg.tool_calls is exhausted: next iteration of the
\* outer loop (line 152).
EndTurn ==
    /\ pc = "tools"
    /\ tci > Len(msg.tool_calls)
    /\ pc' = "loop"
    /\ step' = step + 1
    /\ UNCHANGED <<runInput, messages, N, msg, tci, retval, modelCalls,
                   lastRequest,
                   lastDispatch>>
    /\ UNCHANGED <<chunkVars, storeVars>>

\* The value of line 184 when the last message holds a str.
StepLimitValue(last) == Strip(OrStr(last.content, MaxStepsReached))

\* range(MAX_AGENT_STEPS) is exhausted (line 184):
\* return (messages[-1].get("content") or "Max steps reached.").strip()
\* The user message holds a non-empty list of blocks, and a list has no
\* strip(): AttributeError.
StepLimit ==
    /\ pc = "loop"
    /\ step >= N
    /\ LET last == messages[Len(messages)]
       IN  IF last.role = "user"
           THEN /\ pc' = "raised"
                /\ retval' = retval
           ELSE /\ pc' = "exhausted"
                /\ retval' = StepLimitValue(last)
    /\ UNCHANGED <<runInput, messages, N, step, msg, tci, modelCalls,
                   lastRequest,
                   lastDispatch>>
    /\ UNCHANGED <<chunkVars, storeVars>>

NextAgent == ModelCall \/ ToolStep \/ EndTurn \/ StepLimit

\* Most file paths of one run.
MaxFiles == 2

\* The user texts: empty, whitespace and a question.
UserTexts == {<<>>, <<" ">>, <<"What", " ", "is", " ", "this?">>}

\* The lists of at most MaxFiles paths.
PathLists == UNION {[1..n -> InputPaths] : n \in 0..MaxFiles}

\* The arguments of the runs that start at the call of run_research.
ContentInputs ==
    {[system_prompt |-> None, user_text |-> t, file_paths |-> fps] :
        t \in UserTexts, fps \in PathLists}

\* run_research has been called with one step allowed and has not yet
\* built the messages.
InitCalled ==
    /\ runInput \in ContentInputs
    /\ messages = <<>>
    /\ N = 1
    /\ pc = "call"
    /\ step = 0
    /\ msg = NoMessage
    /\ tci = 0
    /\ retval = <<>>
    /\ modelCalls = 0
    /\ lastRequest = NoRequest
    /\ lastDispatch = NoDispatch

\* Lines 145-150: the system message, build_message_content and the user
\* message.  An exception of the builder leaves run_research.
StartRun ==
    /\ pc = "call"
    /\ IF build_message_content(runInput.user_text, runInput.file_paths).raised
       THEN /\ pc' = "raised"
            /\ messages' = messages
       ELSE /\ pc' = "loop"
            /\ messages' = StartMessages(runInput)
    /\ UNCHANGED <<runInput, N, step, msg, tci, retval, modelCalls,
                   lastRequest, lastDispatch>>
    /\ UNCHANGED <<chunkVars, storeVars>>

NextContent == StartRun \/ NextAgent

\* No run of run_research is in progress.
AgentIdle ==
    /\ runInput = NoInput
    /\ messages = <<>>
    /\ N = 0
    /\ pc = "idle"
    /\ step = 0
    /\ msg = NoMessage
    /\ tci = 0
    /\ retval = <<>>
    /\ modelCalls = 0
    /\ lastRequest = NoRequest
    /\ lastDispatch = NoDispatch

-----------------------------------------------------------------------------
(* The chunker: _chunk_text, src/src/tools/rag.py *)

CHUNK_SIZE == 800

CHUNK_OVERLAP == 100

\* The distance between the starts of two windows.
Stride == CHUNK_SIZE - CHUNK_OVERLAP

\* The input texts reach past the start of window number MaxStrides.
MaxStrides == 2

\* At most MaxBlanks runs of whitespace are put into an input text.
MaxBlanks == 2

\* The character at 0-based position p of a text without whitespace: the
\* period 3 does not divide the stride, so shifted windows differ.
Letter(p) == <<"a", "b", "c">>[(p % 3) + 1]

\* Lengths around the window boundaries: k strides plus nothing, one
\* character, the overlap, one more, and the 2000 characters of scenario 3.
TextLengths ==
    {k * Stride + d : k \in 0..MaxStrides,
                      d \in {0, 1, CHUNK_OVERLAP, CHUNK_OVERLAP + 1,
                             CHUNK_SIZE - 2 * CHUNK_OVERLAP}}

\* Runs of whitespace [from, to) at the window boundaries: the first
\* character of a window, its last character, the whole window.
BlankRuns ==
    UNION {{<<i * Stride, i * Stride + 1>>,
            <<i * Stride + CHUNK_SIZE - 1, i * Stride + CHUNK_SIZE>>,
            <<i * Stride, i * Stride + CHUNK_SIZE>>} : i \in 0..MaxStrides}

\* The text of the given length with whitespace in the given runs.
MakeText(len, blanks) ==
    [q \in 1..len |->
        IF \E r \in blanks : r[1] <= q - 1 /\ q - 1 < r[2]
        THEN " " ELSE Letter(q - 1)]

InputTexts ==
    {MakeText(len, blanks) :
        len \in TextLengths,
        blanks \in {b \in SUBSET BlankRuns : Cardinality(b) <= MaxBlanks}}

\* text[from:to] for 0 <= from <= to: the slice is cut at the end of the text.
Slice(s, from, to) ==
    SubSeq(s, from + 1, IF to < Len(s) THEN to ELSE Len(s))

\* not text or not text.strip()
IsBlank(s) == Len(s) = 0 \/ Strip(s) = <<>>

NextStart_NoOverlap(end) == end

\* start = end - CHUNK_OVERLAP
NextStart(end) == end - CHUNK_OVERLAP

KeepChunk_Always(chunk) == TRUE

\* if chunk.strip()
KeepChunk(chunk) == Strip(chunk) # <<>>

\* The body of the while loop (lines 32-36) on (start, chunks).
ChunkBody(s, st, cs) ==
    LET end   == st + CHUNK_SIZE
        chunk == Slice(s, st, end)
    IN  [start  |-> NextStart(end),
         chunks |-> IF KeepChunk(chunk) THEN Append(cs, Strip(chunk)) ELSE cs]

InitChunk ==
    /\ text \in InputTexts
    /\ cpc = "call"
    /\ start = 0
    /\ chunks = <<>>

ChunkIdle ==
    /\ text = <<>>
    /\ cpc = "idle"
    /\ start = 0
    /\ chunks = <<>>

\* Lines 27-30: the early return for a blank text, or the loop is entered.
ChunkEnter ==
    /\ cpc = "call"
    /\ cpc' = IF IsBlank(text) THEN "done" ELSE "while"
    /\ start' = 0
    /\ chunks' = <<>>
    /\ UNCHANGED text
    /\ UNCHANGED <<agentVars, storeVars>>

\* One pass of "while start < len(text)" (lines 31-36).
ChunkLoop ==
    /\ cpc = "while"
    /\ start < Len(text)
    /\ start' = ChunkBody(text, start, chunks).start
    /\ chunks' = ChunkBody(text, start, chunks).chunks
    /\ UNCHANGED <<text, cpc>>
    /\ UNCHANGED <<agentVars, storeVars>>

\* The loop condition fails: return chunks (lines 31, 37).
ChunkReturn ==
    /\ cpc = "while"
    /\ start >= Len(text)
    /\ cpc' = "done"
    /\ UNCHANGED <<text, start, chunks>>
    /\ UNCHANGED <<agentVars, storeVars>>

NextChunk == ChunkEnter \/ ChunkLoop \/ ChunkReturn

-----------------------------------------------------------------------------
(* The knowledge store: index_document, src/src/tools/rag.py *)

RECURSIVE ChunkFrom(_, _, _)

\* The while loop of _chunk_text from the given start on.
ChunkFrom(s, st, cs) ==
    IF st < Len(s)
    THEN ChunkFrom(s, ChunkBody(s, st, cs).start, ChunkBody(s, st, cs).chunks)
    ELSE cs

\* _chunk_text(text) as index_document calls it.
_chunk_text(s) == IF IsBlank(s) THEN <<>> ELSE ChunkFrom(s, 0, <<>>)

IMAGE_EXTENSIONS == {".png", ".jpg", ".jpeg", ".gif", ".webp"}

\* The paths given to index_document: two files of the same name in two
\* directories, and an image.
IndexPaths ==
    {[dir |-> "kb", name |-> "doc.txt"], [dir |-> "old", name |-> "doc.txt"],
     [dir |-> "kb", name |-> "pic.png"]}

\* p.suffix.lower() of the file names of this model.
Suffix(name) ==
    CASE name \in {"doc.txt", "a.txt", "c.txt", "deep.txt", "e1.txt", "e2.txt",
                   "e3.txt", "e4.txt", "e5.txt", "e6.txt"} -> ".txt"
      [] name = "pic.png" -> ".png"
      [] name = "notes.md" -> ".md"
      [] name \in {"sub", "nowhere"} -> ""
      [] OTHER -> ".pdf"

\* A file: missing, or present with its text; reading a present file may fail
\* (for a .pdf: PdfReader raises on a file that is no PDF).
MissingFile == [exists |-> FALSE, readable |-> FALSE, text |-> <<>>]

UnreadableFile == [exists |-> TRUE, readable |-> FALSE, text |-> <<>>]

TextFile(t) == [exists |-> TRUE, readable |-> TRUE, text |-> t]

\* The documents written to the text files: two versions of a document of
\* two chunks that differ in one character of the first chunk, a document of
\* one chunk, and whitespace.
DocTexts ==
    {MakeText(900, {}), MakeText(900, {<<10, 11>>}), MakeText(3, {}),
     MakeText(2, {<<0, 2>>})}

FileStates == {MissingFile, UnreadableFile} \cup {TextFile(t) : t \in DocTexts}

\* model.encode(chunk): a vector that is a function of the chunk alone.
Embed(chunk) ==
    <<Len(chunk), Cardinality({q \in 1..Len(chunk) : chunk[q] = "a"}),
      Cardinality({q \in 1..Len(chunk) : chunk[q] = " "})>>

\* A returned status message.
Status(kind, n, path) == [kind |-> kind, n |-> n, path |-> path]

NoStatus == Status("", 0, <<>>)

NoIndexCall == [made |-> FALSE, path |-> <<>>, file |-> MissingFile]

NoDirCall ==
    [made |-> FALSE, dir |-> "", raised |-> FALSE, count |-> 0,
     errors |-> <<>>, shown |-> <<>>, processed |-> <<>>]

NoQueryCall ==
    [made |-> FALSE, query |-> <<>>, n_results |-> 0, count |-> 0,
     queried |-> FALSE, sent |-> 0, passages |-> <<>>]

\* coll.add(ids, documents, embeddings, metadatas): Chroma's add inserts the
\* records whose id the collection does not hold and ignores the others
\* without raising (upsert is the call that replaces them).
CollAdd(coll, ids, documents, embeddings, metadatas) ==
    coll \cup
      {[id |-> ids[i], document |-> documents[i], embedding |-> embeddings[i],
        metadata |-> metadatas[i]] :
          i \in {k \in 1..Len(ids) : \A e \in coll : e.id # ids[k]}}

ChunkIds_WithDir(path, n) == [i \in 1..n |-> <<path.dir, path.name, i - 1>>]

\* ids = [f"{p.name}_{i}" for i in range(len(chunks))]
ChunkIds(path, n) == [i \in 1..n |-> <<path.name, i - 1>>]

\* index_document(path) on the file at the path and the collection:
\* the returned status and the collection afterwards.  The status "raised"
\* is an exception that leaves index_document: load_pdf_text (line 72) is
\* called outside the try blocks.
index_document(path, file, coll, deps) ==
    LET ext    == Suffix(path.name)
        cs     == _chunk_text(file.text)
        ids    == ChunkIds(path, Len(cs))
        embs   == [i \in 1..Len(cs) |-> Embed(cs[i])]
        metas  == [i \in 1..Len(cs) |-> [source |-> path]]
        Keep(k) == [status |-> Status(k, 0, path), store |-> coll]
    IN  CASE ~file.exists -> Keep("Error: File not found")
          [] file.exists /\ ext \in IMAGE_EXTENSIONS ->
                Keep("Images cannot be indexed")
          [] file.exists /\ ext = ".pdf" /\ ~file.readable -> Keep("raised")
          [] file.exists /\ ext \notin IMAGE_EXTENSIONS /\ ext # ".pdf"
                /\ ~file.readable ->
                Keep("Error reading file")
          [] OTHER ->
                IF Strip(file.text) = <<>> THEN Keep("No text extracted")
                ELSE IF ~deps THEN Keep("Indexing error")
                ELSE IF cs = <<>> THEN Keep("No chunks")
                ELSE [status |-> Status("Indexed", Len(cs), path),
                      store  |-> CollAdd(coll, ids, cs, embs, metas)]

InitStore ==
    /\ HAS_RAG_DEPS \in BOOLEAN
    /\ fs = [p \in IndexPaths |->
                IF Suffix(p.name) \in IMAGE_EXTENSIONS
                THEN TextFile(<<>>) ELSE MissingFile]
    /\ store = {}
    /\ status = NoStatus
    /\ indexCall = NoIndexCall
    /\ dirCall = NoDirCall
    /\ queryCall = NoQueryCall

StoreIdle ==
    /\ HAS_RAG_DEPS = TRUE
    /\ fs = <<>>
    /\ store = {}
    /\ status = NoStatus
    /\ indexCall = NoIndexCall
    /\ dirCall = NoDirCall
    /\ queryCall = NoQueryCall

\* The user writes, replaces or removes a document file.
WriteFile ==
    /\ \E p \in IndexPaths, f \in FileStates :
          /\ Suffix(p.name) \notin IMAGE_EXTENSIONS
          /\ f # fs[p]
          /\ fs' = [fs EXCEPT ![p] = f]
    /\ UNCHANGED <<HAS_RAG_DEPS, store, status, indexCall, dirCall, queryCall>>
    /\ UNCHANGED <<agentVars, chunkVars>>

\* python main.py index <file>: index_document(path) (lines 60-90).
IndexDocument ==
    /\ \E p \in IndexPaths :
          LET r == index_document(p, fs[p], store, HAS_RAG_DEPS)
          IN  /\ status' = r.status
              /\ store' = r.store
              /\ indexCall' = [made |-> TRUE, path |-> p, file |-> fs[p]]
    /\ UNCHANGED <<HAS_RAG_DEPS, fs, dirCall, queryCall>>
    /\ UNCHANGED <<agentVars, chunkVars>>

NextStore == WriteFile \/ IndexDocument

-----------------------------------------------------------------------------
(* The knowledge store: index_directory and retrieve_from_knowledge_base *)

\* The directories of the file tree.
KbDirs == {"kb", "kb/sub", "bad"}

\* The paths of the file tree, as (directory, name).  kb/sub is a directory
\* inside kb, and kb/gone.txt does not exist.
KbPaths ==
    {[dir |-> "kb", name |-> n] :
        n \in {"a.txt", "b.pdf", "c.txt", "gone.txt", "notes.md", "pic.png", "sub"}}
    \cup {[dir |-> "kb/sub", name |-> "deep.txt"]}
    \cup {[dir |-> "bad", name |-> n] :
            n \in {"e1.txt", "e2.txt", "e3.txt", "e4.txt", "e5.txt", "e6.txt"}}

\* The file trees: kb/b.pdf is a PDF with text or a file PdfReader
\* rejects, kb/c.txt is a document, whitespace or unreadable, and the six
\* files of bad/ are whitespace or unreadable.  Reading a directory as a
\* file raises, as reading an unreadable file does.
KbTrees ==
    {[p \in KbPaths |->
        CASE p.name = "a.txt" -> TextFile(MakeText(3, {}))
          [] p.name = "b.pdf" -> pdf
          [] p.name = "c.txt" -> c
          [] p.name = "gone.txt" -> MissingFile
          [] p.name = "notes.md" -> TextFile(MakeText(4, {}))
          [] p.name = "pic.png" -> TextFile(<<>>)
          [] p.name = "sub" -> UnreadableFile
          [] p.name = "deep.txt" -> TextFile(MakeText(5, {}))
          [] p.name \in {"e1.txt", "e3.txt", "e5.txt"} -> UnreadableFile
          [] OTHER -> TextFile(MakeText(2, {<<0, 2>>}))] :
        pdf \in {TextFile(MakeText(6, {})), UnreadableFile},
        c \in {TextFile(MakeText(7, {})), TextFile(MakeText(2, {<<0, 2>>})),
               UnreadableFile}}

\* The dir_path arguments of index_directory: directories, a file and a
\* path that does not exist.
DirInputs == KbDirs \cup {"kb/a.txt", "nowhere"}

\* The names in the order sorted() gives paths of one directory.
NameOrder ==
    <<"a.txt", "b.pdf", "c.txt", "deep.txt", "doc.txt", "e1.txt", "e2.txt",
      "e3.txt", "e4.txt", "e5.txt", "e6.txt", "gone.txt", "notes.md",
      "pic.png", "sub">>

\* sorted(d.iterdir()): the existing entries directly inside d, in order.
ListDir(d, files) ==
    LET Here(n) == \E p \in DOMAIN files :
                      p.dir = d /\ p.name = n /\ files[p].exists
        names   == SelectSeq(NameOrder, Here)
    IN  [i \in 1..Len(names) |-> [dir |-> d, name |-> names[i]]]

\* result.startswith("Indexed"): of the statuses of index_document only
\* "Indexed <n> chunks from <path>." does ("Indexing error: ..." does not).
StartsWithIndexed(st) == st.kind = "Indexed"

RECURSIVE IndexEntries(_, _, _, _, _)

\* The for loop of index_directory (lines 100-106) from entry i on.  An
\* exception that leaves index_document leaves the loop and the function.
IndexEntries(entries, i, files, deps, acc) ==
    IF i > Len(entries) \/ acc.raised THEN acc
    ELSE LET p == entries[i]
             r == index_document(p, files[p], acc.store, deps)
         IN  IF Suffix(p.name) \notin {".pdf", ".txt"}
             THEN IndexEntries(entries, i + 1, files, deps, acc)
             ELSE IF r.status.kind = "raised"
             THEN [acc EXCEPT !.raised = TRUE, !.processed = Append(@, p)]
             ELSE IF StartsWithIndexed(r.status)
             THEN IndexEntries(entries, i + 1, files, deps,
                      [acc EXCEPT !.store = r.store, !.count = @ + 1,
                                  !.processed = Append(@, p)])
             ELSE IndexEntries(entries, i + 1, files, deps,
                      [acc EXCEPT !.errors =
                                      Append(@, [name |-> p.name, result |-> r.status]),
                                  !.processed = Append(@, p)])

\* errors[:5]
FirstFive(errors) ==
    SubSeq(errors, 1, IF Len(errors) < 5 THEN Len(errors) ELSE 5)

\* index_directory(dir_path): the returned status, the collection afterwards
\* and what the call did.
index_directory(dir_path, files, coll, deps) ==
    IF dir_path \notin KbDirs
    THEN [status |-> Status("Error: Not a directory", 0, dir_path),
          store  |-> coll,
          call   |-> [NoDirCall EXCEPT !.made = TRUE, !.dir = dir_path]]
    ELSE LET acc == IndexEntries(ListDir(dir_path, files), 1, files, deps,
                        [store |-> coll, count |-> 0, errors |-> <<>>,
                         processed |-> <<>>, raised |-> FALSE])
         IN  [status |-> IF acc.raised THEN Status("raised", 0, dir_path)
                         ELSE Status("Indexed file(s)", acc.count, dir_path),
              store  |-> acc.store,
              call   |-> [made |-> TRUE, dir |-> dir_path,
                          raised |-> acc.raised, count |-> acc.count,
                          errors |-> acc.errors,
                          shown |-> IF acc.raised THEN <<>>
                                    ELSE FirstFive(acc.errors),
                          processed |-> acc.processed]]

\* Most results a caller asks for.
MaxResults == 3

\* The queries of the retrievals.
Queries == {<<"a">>, <<"a", "b", "c", "a", "b", "c">>}

\* The distance of the collection: squared L2 between embeddings.
Dist(u, v) ==
    (u[1] - v[1]) * (u[1] - v[1]) + (u[2] - v[2]) * (u[2] - v[2])
        + (u[3] - v[3]) * (u[3] - v[3])

\* The entries of the collection nearest to the embedding.
Nearest(coll, qe) ==
    {e \in coll : \A f \in coll : Dist(qe, e.embedding) <= Dist(qe, f.embedding)}

RECURSIVE NearestFirst(_, _, _)

\* The sequences of n entries coll.query can return: nearest first, entries
\* at the same distance in any order.
NearestFirst(coll, qe, n) ==
    IF n = 0 \/ coll = {} THEN {<<>>}
    ELSE UNION {{<<e>> \o r : r \in NearestFirst(coll \ {e}, qe, n - 1)} :
                    e \in Nearest(coll, qe)}

PassageSource_Unknown(meta) == [dir |-> "", name |-> "unknown"]

\* source = meta.get("source", "unknown")
PassageSource(meta) == meta.source

\* The lines of the returned text: f"[{i}] (from {source})\n{doc}".
Passages(entries) ==
    [i \in 1..Len(entries) |->
        [i |-> i, source |-> PassageSource(entries[i].metadata),
         doc |-> entries[i].document]]

\* min(n_results, n)
Min(a, b) == IF a < b THEN a ELSE b

\* retrieve_from_knowledge_base(query, n_results): the possible returned
\* statuses with what the call did.  coll.query raises for n_results <= 0,
\* and the except clause turns that into "Retrieval error".
retrieve_from_knowledge_base(query, n_results, coll, deps) ==
    LET n    == Cardinality(coll)
        call == [made |-> TRUE, query |-> query, n_results |-> n_results,
                 count |-> 0, queried |-> FALSE, sent |-> 0, passages |-> <<>>]
        sent == Min(n_results, n)
    IN  IF ~deps
        THEN {[status |-> Status("RAG is not available", 0, <<>>), call |-> call]}
        ELSE IF n = 0
        THEN {[status |-> Status("The knowledge base is empty", 0, <<>>),
               call |-> call]}
        ELSE IF sent <= 0
        THEN {[status |-> Status("Retrieval error", 0, <<>>),
               call |-> [call EXCEPT !.count = n, !.queried = TRUE, !.sent = sent]]}
        ELSE {[status |-> Status("passages", Len(r), <<>>),
               call |-> [call EXCEPT !.count = n, !.queried = TRUE,
                                     !.sent = sent, !.passages = Passages(r)]] :
                 r \in NearestFirst(coll, Embed(query), sent)}

\* The file tree is one of the trees and the collection is empty.
InitKb ==
    /\ HAS_RAG_DEPS \in BOOLEAN
    /\ fs \in KbTrees
    /\ store = {}
    /\ status = NoStatus
    /\ indexCall = NoIndexCall
    /\ dirCall = NoDirCall
    /\ queryCall = NoQueryCall

\* python main.py index <file> on a path of the tree.
IndexFile ==
    /\ \E p \in DOMAIN fs :
          LET r == index_document(p, fs[p], store, HAS_RAG_DEPS)
          IN  /\ status' = r.status
              /\ store' = r.store
              /\ indexCall' = [made |-> TRUE, path |-> p, file |-> fs[p]]
    /\ dirCall' = NoDirCall
    /\ queryCall' = NoQueryCall
    /\ UNCHANGED <<HAS_RAG_DEPS, fs>>
    /\ UNCHANGED <<agentVars, chunkVars>>

\* python main.py index <dir>: index_directory(dir_path) (lines 93-110).
IndexDirectory ==
    /\ \E d \in DirInputs :
          LET r == index_directory(d, fs, store, HAS_RAG_DEPS)
          IN  /\ status' = r.status
              /\ store' = r.store
              /\ dirCall' = r.call
    /\ indexCall' = NoIndexCall
    /\ queryCall' = NoQueryCall
    /\ UNCHANGED <<HAS_RAG_DEPS, fs>>
    /\ UNCHANGED <<agentVars, chunkVars>>

\* retrieve_from_knowledge_base(query, n_results) (lines 113-139).
Retrieve ==
    /\ \E q \in Queries, k \in 0..MaxResults :
          \E r \in retrieve_from_knowledge_base(q, k, store, HAS_RAG_DEPS) :
              /\ status' = r.status
              /\ queryCall' = r.call
    /\ indexCall' = NoIndexCall
    /\ dirCall' = NoDirCall
    /\ UNCHANGED <<HAS_RAG_DEPS, fs, store>>
    /\ UNCHANGED <<agentVars, chunkVars>>

NextKb == IndexFile \/ IndexDirectory \/ Retrieve

-----------------------------------------------------------------------------
(* The specifications: one per component, the others idle *)

\* Runs of run_research.
Init == InitAgent /\ ChunkIdle /\ StoreIdle

Next == NextAgent

Spec == Init /\ [][Next]_vars

\* Calls of _chunk_text.
ChunkInit == InitChunk /\ AgentIdle /\ StoreIdle

ChunkSpec == ChunkInit /\ [][NextChunk]_vars

\* Indexing into the knowledge store.
IndexInit == InitStore /\ AgentIdle /\ ChunkIdle

IndexSpec == IndexInit /\ [][NextStore]_vars

\* Runs of run_research from its call on, with files.
ContentInit == InitCalled /\ ChunkIdle /\ StoreIdle

ContentSpec == ContentInit /\ [][NextContent]_vars

\* Operations of the knowledge store on a file tree.
KbInit == InitKb /\ AgentIdle /\ ChunkIdle

KbSpec == KbInit /\ [][NextKb]_vars

-----------------------------------------------------------------------------
(* Properties of the agent loop *)

IsAssistant(j) == messages[j].role = "assistant"

RequestsTools(j) == IsAssistant(j) /\ messages[j].tool_calls # <<>>

AssistantIndexes == {j \in 1..Len(messages) : IsAssistant(j)}

ToolError == <<"Tool", " ", "error:", " ">>

IsToolError(s) == Len(s) >= 4 /\ SubSeq(s, 1, 4) = ToolError

\* C1: every assistant message that carries tool calls c1..cn is followed by
\* exactly n tool messages with the ids of c1..cn in that order, then by the
\* next assistant message or nothing; tool messages are missing only while
\* the turn is still being answered, when no model call can be made.
C1_ToolCallPairing ==
    \A j \in 1..Len(messages) :
        RequestsTools(j) =>
            LET cs == messages[j].tool_calls
            IN  /\ \A k \in 1..Len(cs) :
                      IF j + k <= Len(messages)
                      THEN /\ messages[j + k].role = "tool"
                           /\ messages[j + k].tool_call_id = cs[k].id
                      ELSE /\ pc = "tools"
                           /\ j = SetMax(AssistantIndexes)
                           /\ ~ENABLED ModelCall
                /\ j + Len(cs) + 1 <= Len(messages) =>
                      IsAssistant(j + Len(cs) + 1)

\* C1 witness: a turn of two calls is fully answered, the first by a tool
\* error and the second by a normal result, and the loop goes on.
C1_Witness ==
    /\ pc = "loop"
    /\ \E j \in 1..Len(messages) :
          /\ RequestsTools(j)
          /\ Len(messages[j].tool_calls) = 2
          /\ Len(messages) >= j + 2
          /\ IsToolError(messages[j + 1].content)
          /\ messages[j + 2].content = <<"result">>

\* C2: a reply without tool calls is the last message of the conversation and
\* ends the run at once with its trimmed text as the returned value; the run
\* is done only in that way, and a run ended by its first reply has exactly
\* 3 messages.
C2_NoToolCallsEndsRun ==
    /\ \A j \in 1..Len(messages) :
          (IsAssistant(j) /\ messages[j].tool_calls = <<>>) =>
              /\ j = Len(messages)
              /\ pc = "done"
              /\ retval = Strip(messages[j].content)
              /\ lastDispatch.at < j
              /\ modelCalls = Cardinality(AssistantIndexes)
    /\ pc = "done" =>
          /\ IsAssistant(Len(messages))
          /\ messages[Len(messages)].tool_calls = <<>>
    /\ (pc = "done" /\ modelCalls = 1) =>
          /\ Len(messages) = 3
          /\ messages[1].role = "system"
          /\ messages[2].role = "user"

\* C2 witness: the first reply has no tool calls and its text is returned
\* trimmed.
C2_Witness ==
    /\ pc = "done"
    /\ modelCalls = 1
    /\ Len(messages) = 3
    /\ messages[3].content = <<" ", "answer", " ">>
    /\ retval = <<"answer">>

\* C3 (as claimed, for a step bound N >= 1): with a model that requests a
\* tool in every reply the run makes exactly N model calls, never raises and
\* returns non-empty content.
C3_Claim ==
    N >= 1 =>
        /\ pc # "raised"
        /\ modelCalls <= N
        /\ pc = "exhausted" => (modelCalls = N /\ retval # <<>>)

\* The content the claim C4 expects at the step limit.
LastAssistantContent ==
    IF AssistantIndexes = {} THEN <<>>
    ELSE messages[SetMax(AssistantIndexes)].content

\* C4 (as claimed): at the step limit the returned value is the content of
\* the last assistant message (trimmed or not), or the fallback message when
\* there is no assistant content.
C4_Claim ==
    pc = "exhausted" =>
        IF LastAssistantContent = <<>>
        THEN retval = MaxStepsReached
        ELSE retval \in {LastAssistantContent, Strip(LastAssistantContent)}

\* C5: the message appended for a dispatch holds a str decided by what the
\* dispatch met: the diagnostic naming an unregistered tool, "Tool error: "
\* and the exception when the implementation raised, the empty str for a
\* None result, and the returned str otherwise; the run never raises in a
\* tool turn.
C5_DispatchTotal ==
    /\ pc = "tools" => ENABLED (ToolStep \/ EndTurn)
    /\ lastDispatch.at > 0 =>
          LET d == lastDispatch
              m == messages[d.at]
          IN  /\ m.role = "tool"
              /\ d.found <=> d.name \in TOOL_IMPLEMENTATIONS
              /\ ~d.found => m.content = <<"Unknown", " ", "tool:", " ", d.name>>
              /\ (d.found /\ d.outcome.kind = "raise") =>
                    m.content = ToolError \o d.outcome.value
              /\ (d.found /\ d.outcome.kind = "none") => m.content = <<>>
              /\ (d.found /\ d.outcome.kind = "return") =>
                    m.content = d.outcome.value

\* C5 witness: the conversation holds the answer to an unregistered tool, a
\* tool error, and the empty str of the None result just dispatched.
C5_Witness ==
    /\ lastDispatch.at > 0
    /\ lastDispatch.found
    /\ lastDispatch.outcome.kind = "none"
    /\ messages[lastDispatch.at].content = <<>>
    /\ \E j \in 1..Len(messages) :
          /\ messages[j].role = "tool"
          /\ messages[j].content = <<"Unknown", " ", "tool:", " ", "translate">>
    /\ \E j \in 1..Len(messages) :
          /\ messages[j].role = "tool"
          /\ messages[j].content = ToolError \o <<"ConnectionError">>

\* The argument string parses as a key to value mapping.
ParsesAsMapping(s) == JsonLoads(s).ok /\ JsonLoads(s).value.kind = "dict"

\* C6 (as claimed): a request whose argument string does not parse as a
\* mapping is dispatched with the empty mapping, and its tool message is
\* appended.
C6_Claim ==
    (lastDispatch.at > 0 /\ ~ParsesAsMapping(lastDispatch.arguments)) =>
        /\ lastDispatch.args = EmptyArgs
        /\ messages[lastDispatch.at].role = "tool"
        /\ messages[lastDispatch.at].tool_call_id = lastDispatch.id

\* C7: the conversation starts with the system message and the user message,
\* every step keeps the messages it found and at most appends, and every
\* model call sends the schema list OPENAI_TOOLS.
C7_AppendOnly ==
    [][/\ Len(messages) >= 2
       /\ messages[1].role = "system"
       /\ messages[2].role = "user"
       /\ Len(messages') >= Len(messages)
       /\ SubSeq(messages', 1, Len(messages)) = messages
       /\ modelCalls' # modelCalls =>
             /\ lastRequest'.tools = OPENAI_TOOLS
             /\ lastRequest'.n_messages = Len(messages)]_vars

\* C7 witness: a second model call was made on a conversation grown by a
\* tool turn.
C7_Witness ==
    /\ modelCalls = 2
    /\ Len(messages) >= 5
    /\ messages[1].role = "system"
    /\ messages[2].role = "user"
    /\ lastRequest.tools = OPENAI_TOOLS

-----------------------------------------------------------------------------
(* Properties of the chunker *)

\* The number of windows of a text of the given length: the i >= 0 with
\* i * Stride < len.
NumWindows(len) == (len + Stride - 1) \div Stride

\* Window i of the text: T[i*(W-O) : i*(W-O)+W].
WindowOf(s, i) == Slice(s, i * Stride, i * Stride + CHUNK_SIZE)

\* Window i is a full window: it does not reach past the end of the text.
FullWindow(s, i) == i * Stride + CHUNK_SIZE <= Len(s)

\* Among the first n windows, those not blank after trimming, in window order.
NonBlankAmong(s, n) ==
    LET nb == {i \in 0..n - 1 : Strip(WindowOf(s, i)) # <<>>}
    IN  [k \in 1..Cardinality(nb) |->
            CHOOSE i \in nb : Cardinality({j \in nb : j < i}) = k - 1]

NonBlankWindows(s) == NonBlankAmong(s, NumWindows(Len(s)))

\* One trimmed chunk per non-blank window among the first n, in window order.
ExpectedChunksAmong(s, n) ==
    LET nbw == NonBlankAmong(s, n)
    IN  [k \in 1..Len(nbw) |-> Strip(WindowOf(s, nbw[k]))]

ExpectedChunks(s) == ExpectedChunksAmong(s, NumWindows(Len(s)))

\* The last CHUNK_OVERLAP characters of c are the first of d.
Overlaps(c, d) ==
    /\ Len(c) >= CHUNK_OVERLAP
    /\ Len(d) >= CHUNK_OVERLAP
    /\ SubSeq(c, Len(c) - CHUNK_OVERLAP + 1, Len(c)) = SubSeq(d, 1, CHUNK_OVERLAP)

\* C8 (as claimed): every chunk has at most CHUNK_SIZE characters, two
\* consecutive chunks that both come from full windows overlap by exactly
\* CHUNK_OVERLAP characters, and the empty text has no chunks.
C8_Claim ==
    cpc = "done" =>
        LET nbw == NonBlankWindows(text)
        IN  /\ Len(nbw) = Len(chunks)
            /\ \A k \in 1..Len(chunks) : Len(chunks[k]) <= CHUNK_SIZE
            /\ \A k \in 1..Len(chunks) - 1 :
                  (FullWindow(text, nbw[k]) /\ FullWindow(text, nbw[k + 1])) =>
                      Overlaps(chunks[k], chunks[k + 1])
            /\ text = <<>> => chunks = <<>>

\* C8 (amended): every chunk has at most CHUNK_SIZE characters, two
\* consecutive chunks that both have exactly CHUNK_SIZE characters (full
\* windows that trimming left whole) overlap by exactly CHUNK_OVERLAP
\* characters, and the empty text has no chunks.
C8_ChunkBoundsAndOverlap ==
    /\ \A k \in 1..Len(chunks) : Len(chunks[k]) <= CHUNK_SIZE
    /\ \A k \in 1..Len(chunks) - 1 :
          (Len(chunks[k]) = CHUNK_SIZE /\ Len(chunks[k + 1]) = CHUNK_SIZE) =>
              Overlaps(chunks[k], chunks[k + 1])
    /\ (cpc = "done" /\ text = <<>>) => chunks = <<>>

\* C8 witness: the chunker returned two consecutive chunks of CHUNK_SIZE
\* characters that overlap, for a text that also has whitespace.
C8_Witness ==
    /\ cpc = "done"
    /\ \E q \in 1..Len(text) : text[q] = " "
    /\ \E k \in 1..Len(chunks) - 1 :
          /\ Len(chunks[k]) = CHUNK_SIZE
          /\ Len(chunks[k + 1]) = CHUNK_SIZE
          /\ Overlaps(chunks[k], chunks[k + 1])

\* The text of 2000 characters without whitespace (scenario 3).
Text2000 == MakeText(2000, {})

\* C9: the loop visits the window starts 0, W-O, 2(W-O), ... below len(T), the
\* returned chunks are the trimmed non-blank windows T[i*(W-O) : i*(W-O)+W] in
\* window order, and the 2000-character text yields the 3 chunks at offsets
\* 0, 700 and 1400; _chunk_text returns for every input: every pass of the
\* loop starts below len(T) and moves the start forward, so there are at most
\* as many passes as windows.
C9_WindowsAndTermination ==
    /\ [](cpc = "while" =>
            /\ start % Stride = 0
            /\ start <= NumWindows(Len(text)) * Stride
            /\ chunks = ExpectedChunksAmong(text, start \div Stride))
    /\ [](cpc = "done" =>
            /\ chunks = ExpectedChunks(text)
            /\ text = Text2000 =>
                  chunks = <<SubSeq(text, 1, 800), SubSeq(text, 701, 1500),
                             SubSeq(text, 1401, 2000)>>)
    /\ [][cpc = "while" =>
             (cpc' = "done" \/ (start' > start /\ start < Len(text)))]_vars

\* C9 witness: the 2000-character text was chunked into 3 chunks, the last at
\* offset 1400.
C9_Witness ==
    /\ cpc = "done"
    /\ text = Text2000
    /\ Len(chunks) = 3
    /\ chunks[3] = Slice(text, 1400, 2200)

-----------------------------------------------------------------------------
(* Properties of the knowledge store *)

\* The last index_document call read a document it can index, and every
\* entry of the store comes from the path of that call.
ReindexedOnly ==
    /\ indexCall.made
    /\ HAS_RAG_DEPS
    /\ indexCall.file.exists /\ indexCall.file.readable
    /\ Suffix(indexCall.path.name) \notin IMAGE_EXTENSIONS
    /\ ExpectedChunks(indexCall.file.text) # <<>>
    /\ \A e \in store : e.metadata.source = indexCall.path

\* C10 (as claimed): after a document is indexed, and nothing but this path
\* was ever indexed, the call reported success and the store holds under each
\* id name_i exactly one entry, with chunk i, its embedding and the source of
\* this indexing.
C10_Claim ==
    ReindexedOnly =>
        LET cs == ExpectedChunks(indexCall.file.text)
        IN  /\ status.kind = "Indexed"
            /\ \A i \in 1..Len(cs) :
                  {e \in store : e.id = <<indexCall.path.name, i - 1>>} =
                      {[id |-> <<indexCall.path.name, i - 1>>,
                        document |-> cs[i], embedding |-> Embed(cs[i]),
                        metadata |-> [source |-> indexCall.path]]}

-----------------------------------------------------------------------------
(* Properties of retrieval *)

\* The last operation was a retrieval with the dependencies present.
Retrieved == queryCall.made /\ HAS_RAG_DEPS

\* The entries of the store a returned passage can come from.
EntriesOf(passage) ==
    {e \in store : e.document = passage.doc /\ e.metadata.source = passage.source}

\* The distance of a document from the query of the last retrieval.
QueryDist(doc) == Dist(Embed(queryCall.query), Embed(doc))

\* The returned passages are min(k, N) different entries of the store, each
\* with the source recorded for it, numbered from 1, nearest first, and no
\* entry left out is nearer than one returned.
TopPassages ==
    LET ps == queryCall.passages
    IN  /\ Len(ps) = Min(queryCall.n_results, Cardinality(store))
        /\ status.n = Len(ps)
        /\ \A i \in 1..Len(ps) : ps[i].i = i /\ EntriesOf(ps[i]) # {}
        /\ \A i, j \in 1..Len(ps) : i < j =>
              /\ EntriesOf(ps[i]) # EntriesOf(ps[j])
              /\ QueryDist(ps[i].doc) <= QueryDist(ps[j].doc)
        /\ \A e \in store :
              (\A i \in 1..Len(ps) : e \notin EntriesOf(ps[i])) =>
                  \A i \in 1..Len(ps) :
                      QueryDist(ps[i].doc) <= QueryDist(e.document)

\* An empty store gives the "no data" status and no query is sent to it.
EmptyStoreStatus ==
    /\ status.kind = "The knowledge base is empty"
    /\ ~queryCall.queried

\* C11 (as claimed): for a store of N entries and every k, retrieval returns
\* min(k, N) passages with their sources, nearest first; for N = 0 it
\* returns the "no data" status without a query to the store.
C11_Claim ==
    Retrieved =>
        IF store = {} THEN EmptyStoreStatus
        ELSE /\ status.kind \in {"passages", "No relevant passages"}
             /\ TopPassages

\* C11 (amended): the same for every k >= 1.
C11_RetrieveTopK ==
    (Retrieved /\ queryCall.n_results >= 1) =>
        IF store = {} THEN EmptyStoreStatus
        ELSE /\ status.kind = "passages"
             /\ queryCall.queried
             /\ queryCall.sent = Min(queryCall.n_results, Cardinality(store))
             /\ TopPassages

\* A retrieval of two passages from a store of at least three entries, the
\* second strictly farther than the first.
C11_Witness ==
    /\ Retrieved
    /\ queryCall.n_results = 2
    /\ Cardinality(store) >= 3
    /\ Len(queryCall.passages) = 2
    /\ QueryDist(queryCall.passages[1].doc) < QueryDist(queryCall.passages[2].doc)

-----------------------------------------------------------------------------
(* Properties of the store operations without the dependencies *)

\* The last operation of the knowledge store, if any, has returned or raised.
StoreOperationDone == indexCall.made \/ dirCall.made \/ queryCall.made

\* The statuses that say the capability is missing: the static string of
\* retrieve_from_knowledge_base, and the RuntimeError of
\* _get_client_and_embedder as index_document reports it.
NotAvailableStatuses == {"RAG is not available", "Indexing error"}

\* C12 (as claimed): without the dependencies every operation of the
\* knowledge store returns a "not available" status for every input, does
\* not raise and leaves the store alone.
C12_Claim ==
    (~HAS_RAG_DEPS /\ StoreOperationDone) =>
        /\ status.kind \in NotAvailableStatuses
        /\ store = {}

-----------------------------------------------------------------------------
(* Properties of the content builder *)

\* The shape of the blocks built for a text and a list of paths: the user
\* text first if and only if it is not blank, then one block per path in
\* order, a missing path giving the "file not found" block; the placeholder
\* alone for a blank text without files.
ContentShape(t, fps, c) ==
    LET off == IF Strip(t) # <<>> THEN 1 ELSE 0
    IN  /\ c # <<>>
        /\ IF off = 0 /\ fps = <<>>
           THEN /\ Len(c) = 1
                /\ c[1].type = "text"
                /\ c[1].text = <<"No", " ", "input", " ", "provided.">>
           ELSE /\ Len(c) = off + Len(fps)
                /\ off = 1 => (c[1].type = "text" /\ c[1].text = t)
                /\ \A i \in 1..Len(fps) :
                      ~FileExists(fps[i]) =>
                          /\ c[off + i].type = "text"
                          /\ c[off + i].text =
                               <<"[File", " ", "not", " ", "found:", " ", fps[i], "]">>

\* C13 (as claimed): for every text and every list of paths the builder
\* returns without raising a content of the shape above, and run_research
\* goes on to the model call with that content as the user message.
C13_Claim ==
    (pc # "call" /\ pc # "idle") =>
        /\ pc # "raised"
        /\ Len(messages) >= 2
        /\ messages[2].role = "user"
        /\ ContentShape(runInput.user_text, runInput.file_paths,
                        messages[2].content)
        /\ modelCalls >= 1 => lastRequest.n_messages = 2

-----------------------------------------------------------------------------
(* Properties of index_directory *)

\* The last operation was index_directory on a directory.
DirIndexed == dirCall.made /\ dirCall.dir \in KbDirs

\* The files directly inside the directory with a document extension.
DocFilesIn(d) ==
    {p \in DOMAIN fs :
        p.dir = d /\ fs[p].exists /\ Suffix(p.name) \in {".pdf", ".txt"}}

\* index_document reports success for the file: it can be read, it holds
\* text and the collection is available.
Indexable(f) ==
    f.exists /\ f.readable /\ Strip(f.text) # <<>> /\ HAS_RAG_DEPS

\* The elements of a sequence.
Range(seq) == {seq[i] : i \in 1..Len(seq)}

\* C14 (as claimed): index_directory returns after it has processed each
\* .pdf or .txt file directly inside the directory once and no other file;
\* the count is the number of files indexed with success, every other file
\* has one error entry, count plus errors is the number of processed files,
\* and the status shows the first five errors at most.
C14_Claim ==
    DirIndexed =>
        /\ ~dirCall.raised
        /\ Range(dirCall.processed) = DocFilesIn(dirCall.dir)
        /\ Len(dirCall.processed) = Cardinality(DocFilesIn(dirCall.dir))
        /\ dirCall.count =
              Cardinality({p \in DocFilesIn(dirCall.dir) : Indexable(fs[p])})
        /\ status.n = dirCall.count
        /\ {e.name : e \in Range(dirCall.errors)} =
              {p.name : p \in {q \in DocFilesIn(dirCall.dir) : ~Indexable(fs[q])}}
        /\ dirCall.count + Len(dirCall.errors) = Len(dirCall.processed)
        /\ Len(dirCall.shown) = Min(5, Len(dirCall.errors))
        /\ \A i \in 1..Len(dirCall.shown) : dirCall.shown[i] = dirCall.errors[i]

-----------------------------------------------------------------------------
(* Properties of the chunk ids *)

\* The last operation was an index_document call that reported success.
IndexedNow == indexCall.made /\ status.kind = "Indexed"

\* C15: the ids of a file of n chunks are name_0 .. name_(n-1) for the base
\* name of its path: after a successful indexing the store holds exactly one
\* entry under each of them, every id in the store is the base name of some
\* indexed path with a chunk index, and no two entries share an id, so the
\* chunks i of two files of one base name are never both in the store.
C15_ChunkIds ==
    /\ \A e, f \in store : e.id = f.id => e = f
    /\ \A e \in store :
          /\ Len(e.id) = 2
          /\ e.id[1] = e.metadata.source.name
          /\ e.id[2] \in 0..(Cardinality(store) - 1)
    /\ IndexedNow =>
          LET n == Len(ExpectedChunks(indexCall.file.text))
          IN  /\ n >= 1
              /\ status.n = n
              /\ \A i \in 0..(n - 1) :
                    Cardinality({e \in store :
                                    e.id = <<indexCall.path.name, i>>}) = 1

\* A file of two chunks has been indexed with success after a file of the
\* same base name in another directory: the entry under name_0 is the other
\* file's, and the store holds two entries.
C15_Witness ==
    /\ IndexedNow
    /\ status.n = 2
    /\ Cardinality(store) = 2
    /\ \E e \in store :
          /\ e.id = <<indexCall.path.name, 0>>
          /\ e.metadata.source.name = indexCall.path.name
          /\ e.metadata.source.dir # indexCall.path.dir

=============================================================================
